---- MODULE Spec2Model ----
(***************************************************************************)
(* Model of the heureka API gateway: the JWT access guard                  *)
(* (JwtAuthGuard.canActivate), the gateway controller's route table and    *)
(* response mapping (GatewayController) and the forwarder                  *)
(* (GatewayService.forwardRequest).                                        *)
(*                                                                         *)
(* One inbound request is followed from arrival to the client response.    *)
(* JavaScript values that the code tests with `||`, `!` and String() are   *)
(* modelled as tagged records so that truthiness and string conversion     *)
(* are computed, not assumed.                                              *)
(***************************************************************************)
EXTENDS Integers, Sequences, FiniteSets, TLC

VARIABLES
    pc,        \* position of the request: idle, guard, handler, awaiting, returned, responded
    req,       \* the inbound request (method, url, authorization header, the JWT its token denotes)
    handler,   \* controller method the router selected for the request
    guard,     \* what the guard did for this request: none / accepted / rejected
    verified,  \* number of jwt.verify calls made for this request
    startTime, \* Date.now() when canActivate started
    thrown,    \* message of the exception raised inside the guard's inner try
    user,      \* request.user, the identity the guard attached
    call,      \* the HTTP call forwardRequest issued to a backend (axios config)
    hops,      \* redirects followed by the HTTP client for this call
    upstream,  \* what the backend (or the transport) answered
    fwd,       \* forwardRequest's result: a returned value or a thrown error
    response,  \* what the client received
    log,       \* log entries written for this request: <<component, level>>
    clock,     \* Date.now(), in ticks
    env,       \* process configuration read through ConfigService
    waited,    \* milliseconds the issued call has been pending
    boot,      \* process lifecycle: starting, constructed, warming, serving, failed
    serviceUrls, \* GatewayService.serviceUrls, backend name -> base URL
    probes,    \* warmup probe per backend: none, skipped, pending, warmed, swallowed, rejected
    warmupAgents, \* the connection pool each warmup probe went through, "" for no probe
    last,      \* history: arguments, answer and outcome of the latest finished forward call
    suspended, \* requests parked at the await of their backend call while another one runs
    channel,   \* StockEventsSubscriber.channel: none, open, closed
    store,     \* prisma.heurekaProduct: productId -> isIncluded, for the products of the feed
    deliveries \* the messages of the stock-events queue and how far their callback has run

vars == <<pc, req, handler, guard, verified, startTime, thrown, user, call, hops, upstream, fwd,
          response, log, clock, env, waited, boot, serviceUrls, probes, warmupAgents,
          last, suspended, channel, store, deliveries>>

\* the state of the stock-events consumer
consumerVars == <<channel, store, deliveries>>

\* what lives outside the gateway's startup: histories and the consumer
restVars == <<last, suspended, consumerVars>>

\* the state of the process outside a single request
processVars == <<boot, serviceUrls, probes, warmupAgents, restVars>>

(***************************************************************************)
(* Bounds of the model                                                     *)
(***************************************************************************)
\* ticks per second of the model clock (Date.now() counts 1000 per second)
TicksPerSec == 3
\* the clock runs from 0 to MaxClock ticks
MaxClock == 5

(***************************************************************************)
(* JavaScript values                                                       *)
(***************************************************************************)
Undef == [t |-> "undefined", v |-> ""]
Null == [t |-> "null", v |-> ""]
Str(s) == [t |-> "string", v |-> s]
Num(s) == [t |-> "number", v |-> s]

\* JavaScript truthiness, as used by `a || b`, `!a` and `a ? x : y`
Truthy(x) ==
    CASE x.t = "undefined" -> FALSE
      [] x.t = "null" -> FALSE
      [] x.t = "string" -> x.v # ""
      [] x.t = "number" -> x.v # "0"
      [] OTHER -> TRUE

\* a || b
OrJS(a, b) == IF Truthy(a) THEN a ELSE b

\* a || b on strings, '' being the only falsy string
OrStr(a, b) == IF a # "" THEN a ELSE b

\* String(x)
ToStringJS(x) ==
    CASE x.t = "undefined" -> "undefined"
      [] x.t = "null" -> "null"
      [] OTHER -> x.v

\* obj?.field on the optional nested `user` object of a token payload
Opt(obj, field) == IF obj.t = "object" THEN obj[field] ELSE Undef

(***************************************************************************)
(* Text the code searches: a string is its sequence of characters          *)
(***************************************************************************)
\* the needle occurs in s at position i
MatchesAt(s, needle, i) ==
    /\ i + Len(needle) - 1 <= Len(s)
    /\ SubSeq(s, i, i + Len(needle) - 1) = needle

\* s.includes(needle)
Includes(s, needle) == \E i \in 1..(Len(s) + 1) : MatchesAt(s, needle, i)

\* the characters of the path segments and query strings requests are made of
RECURSIVE Spell(_)
Spell(w) ==
    CASE w = "api" -> <<"a", "p", "i">>
      [] w = "heureka" -> <<"h", "e", "u", "r", "e", "k", "a">>
      [] w = "oauth" -> <<"o", "a", "u", "t", "h">>
      [] w = "callback" -> <<"c", "a", "l", "l", "b", "a", "c", "k">>
      [] w = "feed" -> <<"f", "e", "e", "d">>
      [] w = "import" -> <<"i", "m", "p", "o", "r", "t">>
      [] w = "run" -> <<"r", "u", "n">>
      [] w = "settings" -> <<"s", "e", "t", "t", "i", "n", "g", "s">>
      [] w = "shop" -> <<"s", "h", "o", "p">>
      [] w = "auth" -> <<"a", "u", "t", "h">>
      [] w = "login" -> <<"l", "o", "g", "i", "n">>
      [] w = "register" -> <<"r", "e", "g", "i", "s", "t", "e", "r">>
      [] w = "refresh" -> <<"r", "e", "f", "r", "e", "s", "h">>
      [] w = "profile" -> <<"p", "r", "o", "f", "i", "l", "e">>
      [] w = "offers" -> <<"o", "f", "f", "e", "r", "s">>
      [] w = "publish-all" -> <<"p", "u", "b", "l", "i", "s", "h", "-", "a", "l", "l">>
      [] w = "clone" -> <<"c", "l", "o", "n", "e">>
      [] w = "bulk" -> <<"b", "u", "l", "k">>
      [] w = "validate" -> <<"v", "a", "l", "i", "d", "a", "t", "e">>
      [] w = "code=x" -> <<"c", "o", "d", "e", "=", "x">>
      [] w = "type=x" -> <<"t", "y", "p", "e", "=", "x">>
      [] w = "republish-all" -> <<"r", "e">> \o Spell("publish-all")
      [] w = "cyclone" -> <<"c", "y">> \o Spell("clone")
      [] w = "reimport" -> <<"r", "e">> \o Spell("import")
      [] w = "revalidate" -> <<"r", "e">> \o Spell("validate")
      [] w = "next=/clone" -> <<"n", "e", "x", "t", "=", "/">> \o Spell("clone")
      [] OTHER -> <<>>

\* '/' + segment for every segment
RECURSIVE JoinSegs(_, _)
JoinSegs(segs, i) ==
    IF i > Len(segs) THEN <<>> ELSE <<"/">> \o Spell(segs[i]) \o JoinSegs(segs, i + 1)

\* the path string a handler passes to forwardRequest: path and query of the url
PathText(p) ==
    JoinSegs(p.segs, 1) \o (IF p.query = "" THEN <<>> ELSE <<"?">> \o Spell(p.query))

(***************************************************************************)
(* Authorization header: text as a sequence of characters                  *)
(***************************************************************************)
NoHeader == [present |-> FALSE, chars |-> <<>>]
Header(cs) == [present |-> TRUE, chars |-> cs]

\* s.split(sep): the pieces of s between occurrences of the character sep
RECURSIVE SplitFrom(_, _, _, _)
SplitFrom(s, sep, i, cur) ==
    IF i > Len(s) THEN <<cur>>
    ELSE IF s[i] = sep THEN <<cur>> \o SplitFrom(s, sep, i + 1, <<>>)
    ELSE SplitFrom(s, sep, i + 1, Append(cur, s[i]))

Split(s, sep) == SplitFrom(s, sep, 1, <<>>)

BearerWord == <<"B", "e", "a", "r", "e", "r">>

\* the token text; a string that is never empty counts as present, "" as absent
NoToken == [present |-> FALSE, chars |-> <<>>]

extractTokenFromHeaderNoSchemeCheck(authorization) ==
    LET parts == IF authorization.present THEN Split(authorization.chars, " ") ELSE <<>>
    IN  IF Len(parts) >= 2 THEN [present |-> TRUE, chars |-> parts[2]] ELSE NoToken

extractTokenFromHeader(authorization) ==
    LET parts == IF authorization.present THEN Split(authorization.chars, " ") ELSE <<>>
        type == IF Len(parts) >= 1 THEN parts[1] ELSE <<>>
    IN  IF Len(parts) >= 1 /\ type = BearerWord /\ Len(parts) >= 2
        THEN [present |-> TRUE, chars |-> parts[2]]
        ELSE NoToken

\* !token : undefined and the empty string are both falsy
TokenTruthy(token) == token.present /\ token.chars # <<>>

(***************************************************************************)
(* Token payloads and jwt.verify                                           *)
(***************************************************************************)
\* the serialized token carried by well-formed requests
TokenText == <<"t">>

\* decoded.user when the payload nests a user object
UserObj(i, u, s, e, c) ==
    [t |-> "object", id |-> i, userId |-> u, sub |-> s, email |-> e, createdAt |-> c]

Payload(i, s, u, usr, e, ue, c, ia) ==
    [id |-> i, sub |-> s, userId |-> u, user |-> usr, email |-> e,
     userEmail |-> ue, createdAt |-> c, iat |-> ia]

\* a JWT: form is how its structure and signature verify against the secret,
\* nbf and exp hold the claim (in ticks) when present
Jwt(f, n, e, p) == [form |-> f, nbf |-> n, exp |-> e, payload |-> p]

\* Math.floor(Date.now() / 1000), kept in ticks
FloorSec(now) == now - (now % TicksPerSec)

Thrown(n, m) == [ok |-> FALSE, name |-> n, message |-> m]

\* jwt.verify(token, secret) of the jsonwebtoken library at time `now`:
\* structure, then signature, then nbf, then exp
JwtVerify(token, jwt, now) ==
    IF token # TokenText \/ jwt.form = "malformed"
    THEN Thrown("JsonWebTokenError", "jwt malformed")
    ELSE IF jwt.form = "badsig"
    THEN Thrown("JsonWebTokenError", "invalid signature")
    ELSE IF \E n \in jwt.nbf : n > FloorSec(now)
    THEN Thrown("NotBeforeError", "jwt not active")
    ELSE IF \E e \in jwt.exp : FloorSec(now) >= e
    THEN Thrown("TokenExpiredError", "jwt expired")
    ELSE [ok |-> TRUE, name |-> "", message |-> ""]

(***************************************************************************)
(* JwtAuthGuard.canActivate                                                *)
(***************************************************************************)
\* the candidates for the user id, in the order the code tries them
IdCandidates(d) ==
    <<d.id, d.sub, d.userId, Opt(d.user, "id"), Opt(d.user, "userId"), Opt(d.user, "sub")>>

EmailCandidates(d) == <<d.email, Opt(d.user, "email"), d.userEmail>>

\* c[1] || c[2] || ... || c[n]
RECURSIVE OrChainFrom(_, _)
OrChainFrom(c, i) ==
    IF i >= Len(c) THEN c[i] ELSE OrJS(c[i], OrChainFrom(c, i + 1))

OrChain(c) == OrChainFrom(c, 1)

\* first candidate that is truthy and not the literal 'undefined' or 'null'
RECURSIVE OrChainSkippingLiterals(_, _)
OrChainSkippingLiterals(c, i) ==
    IF i >= Len(c) THEN c[i]
    ELSE IF Truthy(c[i]) /\ ToStringJS(c[i]) \notin {"undefined", "null"} THEN c[i]
    ELSE OrChainSkippingLiterals(c, i + 1)

ResolveUserIdSkippingLiterals(d) ==
    LET userId == OrChainSkippingLiterals(IdCandidates(d), 1)
    IN  IF Truthy(userId) THEN ToStringJS(userId) ELSE ""

\* userId ? String(userId) : ''
ResolveUserId(d) ==
    LET userId == OrChain(IdCandidates(d))
    IN  IF Truthy(userId) THEN ToStringJS(userId) ELSE ""

\* decoded.email || decoded.user?.email || decoded.userEmail || ''
ResolveEmail(d) ==
    LET e == OrChain(EmailCandidates(d) \o <<Str("")>>)
    IN  ToStringJS(e)

\* (createdAt || user?.createdAt || iat) ? new Date(iat * 1000).toISOString() : undefined
\* throws RangeError when the condition holds and iat is not a number
CreatedAtThrows(d) ==
    /\ Truthy(OrChain(<<d.createdAt, Opt(d.user, "createdAt"), d.iat>>))
    /\ d.iat.t # "number"

NoUser == [id |-> "", email |-> ""]

\* `user-${user.id}@unknown`
PlaceholderEmail(id) == "user-" \o id \o "@unknown"

\* the email of the attached identity
FinalEmail(d, id) ==
    LET userEmail == ResolveEmail(d)
    IN  IF userEmail # "" THEN userEmail
        ELSE IF Truthy(d.user) /\ Truthy(Opt(d.user, "email"))
        THEN ToStringJS(Opt(d.user, "email"))
        ELSE PlaceholderEmail(id)

\* the inner try block: verification, expiry double-check, identity
InnerTry(token, jwt, now1, now2) ==
    LET v == JwtVerify(token, jwt, now1)
        d == jwt.payload
        id == ResolveUserId(d)
    IN  IF ~v.ok THEN [ok |-> FALSE, name |-> v.name, message |-> v.message, user |-> NoUser]
        ELSE IF \E e \in jwt.exp : e # 0 /\ e < now2
        THEN [ok |-> FALSE, name |-> "UnauthorizedException",
              message |-> "Token expired", user |-> NoUser]
        ELSE IF CreatedAtThrows(d)
        THEN [ok |-> FALSE, name |-> "RangeError",
              message |-> "Invalid time value", user |-> NoUser]
        ELSE IF id = "" \/ id = "undefined" \/ id = "null"
        THEN [ok |-> FALSE, name |-> "UnauthorizedException",
              message |-> "Invalid token payload: missing user ID", user |-> NoUser]
        ELSE [ok |-> TRUE, name |-> "", message |-> "",
              user |-> [id |-> id, email |-> FinalEmail(d, id)]]

\* the inner catch: the message of the UnauthorizedException it throws
InnerCatch(name) ==
    IF name = "TokenExpiredError" THEN "Token expired"
    ELSE IF name = "JsonWebTokenError" THEN "Invalid token"
    ELSE "Token validation failed"

\* a guard that attaches the decoded identity before it validates the token
canActivateAttachingFirst(r, now1, now2) ==
    LET token == extractTokenFromHeader(r.authorization)
        inner == InnerTry(token.chars, r.jwt, now1, now2)
    IN  IF ~TokenTruthy(token)
        THEN [accept |-> FALSE, message |-> "No token provided", user |-> NoUser,
              verifyCalls |-> 0, thrown |-> ""]
        ELSE IF inner.ok
        THEN [accept |-> TRUE, message |-> "", user |-> inner.user,
              verifyCalls |-> 1, thrown |-> ""]
        ELSE [accept |-> FALSE, message |-> InnerCatch(inner.name),
              user |-> [id |-> ResolveUserId(r.jwt.payload), email |-> ""],
              verifyCalls |-> 1, thrown |-> inner.message]

\* canActivate as a whole: accept with the identity, or reject (401) with a message
canActivate(r, now1, now2) ==
    LET token == extractTokenFromHeader(r.authorization)
        inner == InnerTry(token.chars, r.jwt, now1, now2)
    IN  IF ~TokenTruthy(token)
        THEN [accept |-> FALSE, message |-> "No token provided", user |-> NoUser,
              verifyCalls |-> 0, thrown |-> ""]
        ELSE IF inner.ok
        THEN [accept |-> TRUE, message |-> "", user |-> inner.user,
              verifyCalls |-> 1, thrown |-> ""]
        ELSE [accept |-> FALSE, message |-> InnerCatch(inner.name), user |-> NoUser,
              verifyCalls |-> 1, thrown |-> inner.message]

(***************************************************************************)
(* GatewayController: route table                                          *)
(***************************************************************************)
\* a route of @Controller('api'): path pattern after the leading '/', in
\* segments; wildcard is a trailing '/*'; getOnly is @Get (GET and HEAD)
Route(n, p, w, g) == [name |-> n, prefix |-> p, wildcard |-> w, getOnly |-> g]

\* the handlers in the order the class declares them
RouteTable ==
    << Route("heurekaOAuthCallback", <<"api", "heureka", "oauth", "callback">>, FALSE, TRUE),
       Route("heurekaRoute", <<"api", "heureka">>, TRUE, FALSE),
       Route("importRoute", <<"api", "import">>, TRUE, FALSE),
       Route("settingsRoute", <<"api", "settings">>, TRUE, FALSE),
       Route("settingsBaseRoute", <<"api", "settings">>, FALSE, FALSE),
       Route("authLogin", <<"api", "auth", "login">>, FALSE, FALSE),
       Route("authRegister", <<"api", "auth", "register">>, FALSE, FALSE),
       Route("authRefresh", <<"api", "auth", "refresh">>, FALSE, FALSE),
       Route("authRoute", <<"api", "auth">>, TRUE, FALSE),
       Route("authBaseRoute", <<"api", "auth">>, FALSE, FALSE),
       Route("apiRoot", <<"api">>, FALSE, FALSE) >>

RouteMatches(rt, method, path) ==
    /\ rt.getOnly => method \in {"GET", "HEAD"}
    /\ IF rt.wildcard
       THEN Len(path) > Len(rt.prefix) /\ SubSeq(path, 1, Len(rt.prefix)) = rt.prefix
       ELSE path = rt.prefix

\* the first declared route that matches, "none" when no route does
RECURSIVE MatchFrom(_, _, _)
MatchFrom(i, method, path) ==
    IF i > Len(RouteTable) THEN "none"
    ELSE IF RouteMatches(RouteTable[i], method, path) THEN RouteTable[i].name
    ELSE MatchFrom(i + 1, method, path)

MatchRoute(method, path) == MatchFrom(1, method, path)

UseGuardsExceptSettingsBase(h) ==
    h \in {"heurekaRoute", "importRoute", "settingsRoute"}

\* the handlers that carry @UseGuards(JwtAuthGuard)
UseGuards(h) ==
    h \in {"heurekaRoute", "importRoute", "settingsRoute", "settingsBaseRoute"}

\* the backend a handler forwards to
ServiceOf(h) ==
    CASE h \in {"heurekaOAuthCallback", "heurekaRoute"} -> "heureka"
      [] h = "importRoute" -> "import"
      [] h \in {"settingsRoute", "settingsBaseRoute"} -> "settings"
      [] OTHER -> "auth"

\* the path a handler passes to forwardRequest: fixed for the three explicit
\* auth routes, otherwise the url with the '/api' prefix removed
ForwardPath(h, url) ==
    CASE h = "authLogin" -> [segs |-> <<"auth", "login">>, query |-> ""]
      [] h = "authRegister" -> [segs |-> <<"auth", "register">>, query |-> ""]
      [] h = "authRefresh" -> [segs |-> <<"auth", "refresh">>, query |-> ""]
      [] OTHER -> [segs |-> Tail(url.path), query |-> url.query]

\* the followRedirects argument a handler passes (default true)
FollowRedirectsArg(h) == h # "heurekaOAuthCallback"

getHeadersKeepingClientUserId(r, u) ==
    [authorization |-> IF r.authorization.present /\ r.authorization.chars # <<>>
                       THEN r.authorization ELSE NoHeader,
     userId |-> IF u.id # "" THEN u.id ELSE r.others.xUserId]

\* getHeaders(req): Authorization when present, X-User-Id when the guard set request.user
getHeaders(r, u) ==
    [authorization |-> IF r.authorization.present /\ r.authorization.chars # <<>>
                       THEN r.authorization ELSE NoHeader,
     userId |-> u.id]

(***************************************************************************)
(* Process configuration and the GatewayService constructor                *)
(***************************************************************************)
\* a configured URL text: scheme "" is a text without 'http://' or 'https://';
\* the unset variable is the text with no parts at all
ConfigUrl(s, h, p) == [scheme |-> s, host |-> h, port |-> p]

NoUrl == ConfigUrl("", "", "")

ServiceNames == {"heureka", "import", "settings", "auth"}

NoServiceUrls == [n \in ServiceNames |-> NoUrl]

\* text made of decimal digits only, as the port of a URL must be
PortDigits(p) == p \in {"3000", "3001", "3002", "3370"}

\* url.includes('-service')
IncludesService(u) == u.host \in {"heureka-service", "import-service", "settings-service",
                                  "auth-service"}

\* url.startsWith('https://')
startsWithHttps(u) == u.scheme = "https"

\* url.startsWith('http://localhost')
startsWithHttpLocalhost(u) == u.scheme = "http" /\ u.host = "localhost"

\* new URL(text) succeeds
WellFormedUrl(u) ==
    /\ u.scheme \in {"http", "https"}
    /\ u.host # ""
    /\ (u.port = "" \/ PortDigits(u.port))

ConfigError == [ok |-> FALSE, url |-> NoUrl]

Configured(u) == [ok |-> TRUE, url |-> u]

\* getServiceUrl(envVar, portEnvVar, serviceName) of the constructor
getServiceUrl(e, url, port) ==
    LET isDevelopment == OrStr(e.NODE_ENV, "development") = "development"
        extractedPort == IF PortDigits(url.port) THEN url.port ELSE port
    IN  IF url # NoUrl /\ isDevelopment /\ IncludesService(url) /\ extractedPort # ""
        THEN Configured(ConfigUrl("http", "localhost", extractedPort))
        ELSE IF url # NoUrl THEN Configured(url)
        ELSE IF port # "" THEN Configured(ConfigUrl("http", "localhost", port))
        ELSE ConfigError

\* the auth entry of serviceUrls
getAuthUrl(e) ==
    LET isDevelopment == OrStr(e.NODE_ENV, "development") = "development"
    IN  IF isDevelopment /\ e.AUTH_SERVICE_PORT # ""
        THEN Configured(ConfigUrl("http", "localhost", e.AUTH_SERVICE_PORT))
        ELSE IF isDevelopment /\ startsWithHttpLocalhost(e.AUTH_SERVICE_URL)
        THEN Configured(e.AUTH_SERVICE_URL)
        ELSE IF e.AUTH_SERVICE_URL # NoUrl THEN Configured(e.AUTH_SERVICE_URL)
        ELSE ConfigError

\* this.serviceUrls as the constructor computes it
ConstructServiceUrls(e) ==
    [heureka |-> getServiceUrl(e, e.HEUREKA_SERVICE_URL, e.HEUREKA_SERVICE_PORT),
     import |-> getServiceUrl(e, e.IMPORT_SERVICE_URL, e.IMPORT_SERVICE_PORT),
     settings |-> getServiceUrl(e, e.SETTINGS_SERVICE_URL, e.HEUREKA_SETTINGS_SERVICE_PORT),
     auth |-> getAuthUrl(e)]

\* the timeout of the HttpModule factory: HTTP_TIMEOUT, or '30000' when unset
HttpModuleTimeout(e) == OrStr(e.HTTP_TIMEOUT, "30000")

\* what stops the process while the module is instantiated, "" when nothing does
StartupError(e) ==
    IF e.JWT_SECRET = "" THEN "Missing required environment variable: JWT_SECRET"
    ELSE IF \E n \in ServiceNames : ~ConstructServiceUrls(e)[n].ok
    THEN "Missing required environment variable"
    ELSE ""

\* parseInt(timeout) for the configured texts of the model
ParseInt(t) == CASE t = "30000" -> 30000 [] t = "60000" -> 60000 [] OTHER -> 0

(***************************************************************************)
(* GatewayService.forwardRequest                                           *)
(***************************************************************************)
EmptyBody == [message |-> "", errorCode |-> "", errorMessage |-> "", payload |-> ""]

NoAnswer == [kind |-> "none", status |-> 0, body |-> EmptyBody, location |-> "",
             code |-> "", message |-> ""]
Resp(s, b, l) == [kind |-> "response", status |-> s, body |-> b, location |-> l,
                  code |-> "", message |-> ""]
TransportError(c, m) == [kind |-> "error", status |-> 0, body |-> EmptyBody,
                         location |-> "", code |-> c, message |-> m]

NoError == [name |-> "", code |-> "", message |-> "", status |-> 0, data |-> EmptyBody]
NoValue == [isRedirect |-> FALSE, status |-> 0, location |-> "", data |-> EmptyBody]
NoFwd == [kind |-> "none", value |-> NoValue, error |-> NoError]
Returned(v) == [kind |-> "return", value |-> v, error |-> NoError]
Threw(e) == [kind |-> "throw", value |-> NoValue, error |-> e]

NoCall == [issued |-> FALSE, attempt |-> 0, serviceName |-> "", url |-> NoUrl,
           path |-> [segs |-> <<>>, query |-> ""],
           method |-> "", body |-> FALSE,
           headers |-> [contentType |-> "", connection |-> "",
                        authorization |-> NoHeader, userId |-> ""],
           timeout |-> 0, maxRedirects |-> 0, httpAgent |-> "", httpsAgent |-> ""]

SupportedMethods == {"GET", "POST", "PUT", "DELETE", "PATCH"}

maxRedirectsFollowingArg(followRedirects) == IF followRedirects THEN 5 ELSE 0

\* config.maxRedirects
maxRedirects(followRedirects) == 0

\* config.validateStatus
validateStatus(status) == status >= 200 /\ status < 600

\* body argument of routeRequest: req.body unless the method is GET or DELETE;
\* the OAuth callback passes undefined
SendsBody(h, method) == h # "heurekaOAuthCallback" /\ method \notin {"GET", "DELETE"}

\* gatewayTimeout || httpTimeout
DefaultTimeoutText(e) == OrStr(e.GATEWAY_TIMEOUT, e.HTTP_TIMEOUT)

\* what forwardRequest throws before its try block, "" when it enters the block
ThrowsBeforeTry(urls, e, serviceName) ==
    IF urls[serviceName] = NoUrl THEN "Service not configured"
    ELSE IF DefaultTimeoutText(e) = ""
    THEN "GATEWAY_TIMEOUT or HTTP_TIMEOUT must be configured in .env file"
    ELSE ""

\* what forwardRequest throws before it issues a call, "" when it issues one
ThrowsBeforeCall(urls, e, serviceName, method) ==
    IF ThrowsBeforeTry(urls, e, serviceName) # "" THEN ThrowsBeforeTry(urls, e, serviceName)
    ELSE IF ~WellFormedUrl(urls[serviceName]) THEN "Invalid URL"
    ELSE IF method \notin SupportedMethods THEN "Unsupported method"
    ELSE ""

\* the needles of the timeout classification
SlashWord(w) == <<"/">> \o Spell(w)

isPublishAll(path) ==
    Includes(path, SlashWord("publish-all")) \/ Includes(path, SlashWord("clone"))

isBulkOperation(path) ==
    \/ Includes(path, SlashWord("publish-all"))
    \/ Includes(path, SlashWord("import"))
    \/ Includes(path, SlashWord("bulk"))
    \/ Includes(path, SlashWord("clone"))

isValidationOperation(path) ==
    \/ Includes(path, SlashWord("validate") \o SlashWord("heureka"))
    \/ Includes(path, SlashWord("validate") \o <<"/">>)

TimeoutBulkBeforePublishAll(path, defaultTimeout) ==
    IF isBulkOperation(path) THEN 120000
    ELSE IF isPublishAll(path) THEN 600000
    ELSE IF isValidationOperation(path) THEN 90000
    ELSE defaultTimeout

\* config.timeout
Timeout(path, defaultTimeout) ==
    IF isPublishAll(path) THEN 600000
    ELSE IF isBulkOperation(path) THEN 120000
    ELSE IF isValidationOperation(path) THEN 90000
    ELSE defaultTimeout

isInternalService(serviceName) == serviceName \in {"heureka", "import", "settings"}

isExternalService(serviceName, isHttps) == serviceName = "auth" /\ isHttps

\* the four connection pools of the service and their keep-alive setting
Agents ==
    [httpAgent |-> [keepAlive |-> TRUE, encrypted |-> FALSE],
     httpsAgent |-> [keepAlive |-> TRUE, encrypted |-> TRUE],
     externalHttpAgent |-> [keepAlive |-> FALSE, encrypted |-> FALSE],
     externalHttpsAgent |-> [keepAlive |-> FALSE, encrypted |-> TRUE]]

\* config.httpAgent, "" for undefined
httpAgent(serviceName, isHttps) ==
    IF isHttps THEN ""
    ELSE IF isInternalService(serviceName) THEN "httpAgent" ELSE "externalHttpAgent"

\* config.httpsAgent, "" for undefined
httpsAgent(serviceName, isHttps) ==
    IF isHttps
    THEN (IF isExternalService(serviceName, isHttps) THEN "externalHttpsAgent" ELSE "httpsAgent")
    ELSE ""

\* the pool the HTTP client takes for a call: the agent of the url's scheme
AgentUsed(c) == IF startsWithHttps(c.url) THEN c.httpsAgent ELSE c.httpAgent

\* a pool that holds a single connection per backend
maxSocketsOne(agent) == 1

\* maxSockets of a pool: the HttpModule agents the service adopts, and the
\* external agents it creates, allow 50 connections per backend
maxSockets(agent) == 50

\* two calls share the connections of one pool to one backend
SamePool(c1, c2) == AgentUsed(c1) = AgentUsed(c2) /\ c1.url = c2.url

\* the calls in flight on the pool of a call, itself included
InFlightOn(c, parked) ==
    1 + Cardinality({ i \in 1..Len(parked) : SamePool(parked[i].call, c) })

\* the pool has a connection for the call; otherwise the call is queued
HasSocket(c, parked) == InFlightOn(c, parked) <= maxSockets(AgentUsed(c))

\* config.headers: Content-Type, Connection for external services, then the
\* headers the controller passed
configHeaders(serviceName, isHttps, headers) ==
    [contentType |-> "application/json",
     connection |-> IF isExternalService(serviceName, isHttps) THEN "close" ELSE "",
     authorization |-> headers.authorization,
     userId |-> headers.userId]

\* the timeout values a call of the model can carry
Instants == {30000, 60000, 90000, 120000, 600000}

\* the next instant at which a deadline can fall
NextInstant(w) == CHOOSE i \in Instants : i > w /\ \A j \in Instants : j > w => i <= j

MsText(t) ==
    CASE t = 30000 -> "30000" [] t = 60000 -> "60000" [] t = 90000 -> "90000"
      [] t = 120000 -> "120000" [] OTHER -> "600000"

\* the message of the HTTP client's timeout error
TimeoutMessage(t) == "timeout of " \o MsText(t) \o "ms exceeded"

\* the messages of the model's errors that contain the text 'timeout'
MessageIncludesTimeout(m) == m \in {TimeoutMessage(t) : t \in Instants}

\* response.status >= 300 && response.status < 400
isRedirectStatus(status) == status >= 300 /\ status < 400

\* the HTTP client follows a redirect itself while maxRedirects allows
AxiosFollows(c, ans, h) ==
    /\ ans.kind = "response"
    /\ ans.status >= 300 /\ ans.status < 400
    /\ ans.location # ""
    /\ h < c.maxRedirects

\* a forwarder that issues the call again after a failure
AfterSettleRetrying(result) == IF result.kind = "throw" THEN "handler" ELSE "returned"

\* where the request goes once the awaited call has settled: forwardRequest
\* returns the value or rethrows the error, and the handler takes over
AfterSettle(result) == "returned"

\* a forwarder that refuses the call that follows a successful one
ForwardResultThrottled(ans) ==
    IF last.fwd.kind = "return"
    THEN Threw([name |-> "Error", code |-> "", message |-> "Too many requests",
                status |-> 0, data |-> EmptyBody])
    ELSE IF ans.kind = "error"
    THEN Threw([name |-> "AxiosError", code |-> ans.code, message |-> ans.message,
                status |-> 0, data |-> EmptyBody])
    ELSE IF ~validateStatus(ans.status)
    THEN Threw([name |-> "AxiosError", code |-> "ERR_BAD_RESPONSE",
                message |-> "Request failed with status code",
                status |-> ans.status, data |-> ans.body])
    ELSE IF isRedirectStatus(ans.status)
    THEN Returned([isRedirect |-> TRUE, status |-> ans.status,
                   location |-> ans.location, data |-> EmptyBody])
    ELSE Returned([isRedirect |-> FALSE, status |-> 0, location |-> "", data |-> ans.body])

\* forwardRequest after the await: the value returned or the error rethrown
ForwardResult(ans) ==
    IF ans.kind = "error"
    THEN Threw([name |-> "AxiosError", code |-> ans.code, message |-> ans.message,
                status |-> 0, data |-> EmptyBody])
    ELSE IF ~validateStatus(ans.status)
    THEN Threw([name |-> "AxiosError", code |-> "ERR_BAD_RESPONSE",
                message |-> "Request failed with status code",
                status |-> ans.status, data |-> ans.body])
    ELSE IF isRedirectStatus(ans.status)
    THEN Returned([isRedirect |-> TRUE, status |-> ans.status,
                   location |-> ans.location, data |-> EmptyBody])
    ELSE Returned([isRedirect |-> FALSE, status |-> 0, location |-> "", data |-> ans.body])

(***************************************************************************)
(* GatewayController: what the client receives                             *)
(***************************************************************************)
NoResponse == [status |-> 0, kind |-> "none", code |-> "", message |-> "",
               value |-> NoValue, location |-> ""]

Envelope(st, c, m) == [status |-> st, kind |-> "envelope", code |-> c, message |-> m,
                       value |-> NoValue, location |-> ""]

\* the status routeRequest and the OAuth callback send with a returned value
SuccessStatus(f, ans) == 200

\* the catch block of routeRequest
routeRequestError(serviceName, e) ==
    IF e.status = 401 /\ serviceName = "auth"
    THEN Envelope(401, "UNAUTHORIZED", OrStr(e.data.message, "Invalid credentials"))
    ELSE IF e.name = "UnauthorizedException"
    THEN Envelope(401, "UNAUTHORIZED", OrStr(e.message, "Authentication required"))
    ELSE IF e.code = "ECONNABORTED" \/ MessageIncludesTimeout(e.message)
    THEN Envelope(503, "SERVICE_UNAVAILABLE", "Unable to reach service")
    ELSE IF e.code \in {"ECONNREFUSED", "ENOTFOUND", "ETIMEDOUT"}
    THEN Envelope(503, "SERVICE_UNAVAILABLE", "Cannot connect to service")
    ELSE IF e.status = 409
    THEN Envelope(409, OrStr(e.data.errorCode, "CONFLICT"),
                  OrStr(e.data.errorMessage, OrStr(e.data.message, "Resource already exists")))
    ELSE Envelope(IF e.status # 0 THEN e.status ELSE 500,
                  OrStr(e.data.errorCode, "GATEWAY_ERROR"),
                  OrStr(e.data.errorMessage,
                        OrStr(e.data.message, OrStr(e.message, "Internal server error"))))

\* the error-severity entries routeRequest writes in its catch block
routeRequestErrorLog(serviceName, e) ==
    IF (e.status = 401 /\ serviceName = "auth") \/ e.name = "UnauthorizedException"
    THEN {}
    ELSE {<<"controller", "error">>}

\* routeRequest after forwardRequest settled
routeRequestResponse(serviceName, f, ans) ==
    IF f.kind = "return"
    THEN [status |-> SuccessStatus(f, ans), kind |-> "json", code |-> "", message |-> "",
          value |-> f.value, location |-> ""]
    ELSE routeRequestError(serviceName, f.error)

\* a callback handler that always redirects with 302
heurekaOAuthCallbackResponseFound(f, ans) ==
    IF f.kind = "return" /\ f.value.isRedirect /\ f.value.location # ""
    THEN [status |-> 302, kind |-> "redirect", code |-> "", message |-> "",
          value |-> NoValue, location |-> f.value.location]
    ELSE IF f.kind = "return"
    THEN [status |-> SuccessStatus(f, ans), kind |-> "json", code |-> "", message |-> "",
          value |-> f.value, location |-> ""]
    ELSE Envelope(IF f.error.status # 0 THEN f.error.status ELSE 500,
                  "OAUTH_CALLBACK_ERROR",
                  OrStr(f.error.data.errorMessage,
                        OrStr(f.error.message, "OAuth callback failed")))

\* heurekaOAuthCallback after forwardRequest settled
heurekaOAuthCallbackResponse(f, ans) ==
    IF f.kind = "return" /\ f.value.isRedirect /\ f.value.location # ""
    THEN [status |-> IF f.value.status # 0 THEN f.value.status ELSE 302,
          kind |-> "redirect", code |-> "", message |-> "",
          value |-> NoValue, location |-> f.value.location]
    ELSE IF f.kind = "return"
    THEN [status |-> SuccessStatus(f, ans), kind |-> "json", code |-> "", message |-> "",
          value |-> f.value, location |-> ""]
    ELSE Envelope(IF f.error.status # 0 THEN f.error.status ELSE 500,
                  "OAUTH_CALLBACK_ERROR",
                  OrStr(f.error.data.errorMessage,
                        OrStr(f.error.message, "OAuth callback failed")))

(***************************************************************************)
(* Requests the gateway is offered                                         *)
(***************************************************************************)
EmptyPayload == Payload(Undef, Undef, Undef, Undef, Undef, Undef, Undef, Undef)

\* inbound headers other than Authorization: a client-supplied X-User-Id and a cookie
NoOthers == [xUserId |-> "", cookie |-> ""]

NoReq == [method |-> "", url |-> [path |-> <<>>, query |-> ""],
          authorization |-> NoHeader, jwt |-> Jwt("malformed", {}, {}, EmptyPayload),
          others |-> NoOthers]

Url(p, q) == [path |-> p, query |-> q]

BearerHeader == Header(BearerWord \o <<" ">> \o TokenText)

GatewayUrls ==
    { Url(<<"api", "heureka", "oauth", "callback">>, "code=x"),
      Url(<<"api", "heureka", "feed">>, "type=x"),
      Url(<<"api", "heureka", "offers", "publish-all">>, ""),
      Url(<<"api", "heureka", "validate", "heureka">>, ""),
      Url(<<"api", "heureka">>, ""),
      Url(<<"api", "import", "run">>, ""),
      Url(<<"api", "settings", "shop">>, ""),
      Url(<<"api", "settings">>, ""),
      Url(<<"api", "auth", "login">>, ""),
      Url(<<"api", "auth", "register">>, ""),
      Url(<<"api", "auth", "refresh">>, ""),
      Url(<<"api", "auth", "profile">>, ""),
      Url(<<"api", "auth">>, ""),
      Url(<<"api">>, "") }

GatewayMethods == {"GET", "POST", "HEAD"}

\* Authorization header and the JWT its token denotes
GatewayCredentials ==
    { [authorization |-> NoHeader, jwt |-> NoReq.jwt],
      [authorization |-> Header(<<"B", "a", "s", "i", "c", " ", "t">>), jwt |-> NoReq.jwt],
      [authorization |-> BearerHeader,
       jwt |-> Jwt("ok", {}, {}, Payload(Undef, Str("u1"), Undef, Undef, Undef, Undef,
                                         Undef, Num("1")))],
      [authorization |-> BearerHeader,
       jwt |-> Jwt("ok", {}, {}, Payload(Undef, Undef, Undef, Undef, Str("a@x"), Undef,
                                         Undef, Num("1")))],
      [authorization |-> BearerHeader,
       jwt |-> Jwt("badsig", {}, {}, Payload(Str("u1"), Undef, Undef, Undef, Undef, Undef,
                                             Undef, Num("1")))] }

GatewayRequests ==
    { [method |-> m, url |-> u, authorization |-> c.authorization, jwt |-> c.jwt,
       others |-> NoOthers] :
        m \in GatewayMethods, u \in GatewayUrls, c \in GatewayCredentials }

Bodies ==
    { [message |-> "bad creds", errorCode |-> "", errorMessage |-> "", payload |-> ""],
      [message |-> "", errorCode |-> "", errorMessage |-> "", payload |-> "ok:true"],
      [message |-> "exists", errorCode |-> "USER_EXISTS", errorMessage |-> "taken",
       payload |-> ""] }

\* what a backend, or the transport to it, can answer
Answers ==
    { Resp(st, b, "") : st \in {200, 201, 401, 404, 409, 500, 600}, b \in Bodies }
    \cup { Resp(st, [EmptyBody EXCEPT !.payload = "moved"], l) :
             st \in {302, 307}, l \in {"", "https://shop/cb"} }
    \cup { TransportError("ECONNREFUSED", "connect ECONNREFUSED"),
           TransportError("ENOTFOUND", "getaddrinfo ENOTFOUND"),
           TransportError("ETIMEDOUT", "connect ETIMEDOUT"),
           TransportError("ECONNRESET", "socket hang up") }

\* a production configuration with every variable the gateway reads
BaseEnv ==
    [NODE_ENV |-> "production", GATEWAY_TIMEOUT |-> "30000", HTTP_TIMEOUT |-> "",
     JWT_SECRET |-> "secret",
     HEUREKA_SERVICE_URL |-> ConfigUrl("http", "heureka-service", "3000"),
     HEUREKA_SERVICE_PORT |-> "",
     IMPORT_SERVICE_URL |-> ConfigUrl("http", "import-service", "3001"),
     IMPORT_SERVICE_PORT |-> "",
     SETTINGS_SERVICE_URL |-> ConfigUrl("http", "settings-service", "3002"),
     HEUREKA_SETTINGS_SERVICE_PORT |-> "",
     AUTH_SERVICE_URL |-> ConfigUrl("https", "auth.example.com", ""),
     AUTH_SERVICE_PORT |-> ""]

\* the configurations the serving gateway is followed under
Envs == { BaseEnv, [BaseEnv EXCEPT !.GATEWAY_TIMEOUT = ""] }

\* the pool a warmup probe goes through: config.httpAgent and config.httpsAgent
\* of the probe are always the keep-alive pair, the url's scheme picks one
warmupAgent(baseUrl) == IF startsWithHttps(baseUrl) THEN "httpsAgent" ELSE "httpAgent"

NoWarmupAgents == [n \in ServiceNames |-> ""]

\* the pools of the probes that were issued
WarmupAgentsOf(p, urls) ==
    [n \in ServiceNames |->
        IF p[n] \in {"none", "skipped"} THEN "" ELSE warmupAgent(urls[n])]

\* no forward call has finished and no request is parked
NoArgs == [serviceName |-> "", path |-> [segs |-> <<>>, query |-> ""], method |-> "",
           body |-> FALSE, headers |-> getHeaders(NoReq, NoUser), followRedirects |-> TRUE]
NoLast == [args |-> NoArgs, upstream |-> NoAnswer, fwd |-> NoFwd]
NoHistory == last = NoLast /\ suspended = <<>>

(***************************************************************************)
(* StockEventsSubscriber: messages, events and the feed store              *)
(***************************************************************************)
\* messages the queue delivers in one run of the model
MaxMessages == 2

\* the products that have a row in heurekaProduct, and the ids events name
Products == {"p1"}
ProductIds == {"p1", "p9"}

\* event.available: a number, or absent from the event
Available(n) == [defined |-> TRUE, n |-> n]
NoAvailable == [defined |-> FALSE, n |-> 0]

\* available > 0; undefined > 0 is false
GreaterThanZero(a) == a.defined /\ a.n > 0

\* msg.content: text that is no JSON, the JSON text null, or a JSON object
Content(x, t, p, a) == [text |-> x, type |-> t, productId |-> p, available |-> a]
NoContent == Content("", "", "", NoAvailable)
Contents ==
    { Content("malformed", "", "", NoAvailable), Content("null", "", "", NoAvailable),
      Content("object", "stock.low", "p1", Available(1)),
      Content("object", "stock.reserved", "p1", Available(3)) }
    \cup { Content("object", "stock.updated", p, Available(n)) : p \in ProductIds, n \in {0, 5} }
    \cup { Content("object", "stock.out", p, NoAvailable) : p \in ProductIds }

\* JSON.parse(msg.content.toString()) throws on text that is no JSON
JsonParseThrows(c) == c.text = "malformed"

\* const { type, productId, available } = event throws when the event is null
DestructureThrows(c) == c.text = "null"

\* the cases of the switch that reach updateOfferStock
ReachesUpdateOfferStock(c) == c.type \in {"stock.updated", "stock.out"}

\* the quantity updateOfferStock is called with: handleOutOfStock passes 0
QuantityPassed(c) == IF c.type = "stock.out" THEN Available(0) ELSE c.available

\* const shouldInclude = available > 0
shouldInclude(c) == GreaterThanZero(QuantityPassed(c))

\* findUnique({ where: { productId } }): the row, or null
findUnique(st, productId) ==
    IF productId \in DOMAIN st
    THEN [found |-> TRUE, isIncluded |-> st[productId]]
    ELSE [found |-> FALSE, isIncluded |-> FALSE]

\* the flag of a product as text, "none" without a row
FlagOf(st, productId) ==
    IF productId \in DOMAIN st THEN (IF st[productId] THEN "included" ELSE "excluded")
    ELSE "none"

\* one message: its content, the stage of its callback, what updateOfferStock
\* decided to write, the acks and nacks sent for it, and the flag of its
\* product when it was settled
NoDelivery ==
    [content |-> NoContent, stage |-> "queued", want |-> FALSE, threw |-> FALSE,
     acks |-> 0, nacks |-> 0, requeue |-> FALSE, wrote |-> FALSE, flag |-> "none"]

\* this.channel?.ack(msg): nothing is sent once the channel is closed, the call throws
ack(d, ch, st) ==
    IF ch = "open"
    THEN [d EXCEPT !.stage = "done", !.acks = @ + 1, !.flag = FlagOf(st, d.content.productId)]
    ELSE [d EXCEPT !.stage = "caught"]

\* this.channel?.nack(msg, false, false), requeue disabled
nack(d, ch, st) ==
    IF ch = "open"
    THEN [d EXCEPT !.stage = "done", !.nacks = @ + 1, !.requeue = FALSE,
                   !.flag = FlagOf(st, d.content.productId)]
    ELSE [d EXCEPT !.stage = "done"]

\* the callback from where handleStockEvent has settled: ack in the try block,
\* and the catch block's nack when anything in the try block threw
Settlement(d, threw, ch, st) ==
    LET t == [d EXCEPT !.threw = threw]
        acked == ack(t, ch, st)
    IN  IF threw THEN nack(t, ch, st)
        ELSE IF acked.stage = "caught" THEN nack(acked, ch, st)
        ELSE acked

\* the process runs no consumer
ConsumerOff ==
    /\ channel = "none"
    /\ store = [p \in Products |-> TRUE]
    /\ deliveries = [i \in 1..MaxMessages |-> NoDelivery]

\* this.serviceUrls of a process whose constructor succeeded
ServiceUrlsOf(e) == [n \in ServiceNames |-> ConstructServiceUrls(e)[n].url]

\* the warmup probes once all have settled
SettledProbes(urls) ==
    [n \in ServiceNames |->
        IF n = "auth" /\ startsWithHttps(urls[n]) THEN "skipped" ELSE "warmed"]

(***************************************************************************)
(* The gateway serving one request after another                           *)
(***************************************************************************)
Init ==
    /\ pc = "idle"
    /\ req = NoReq
    /\ handler = "none"
    /\ guard = "none"
    /\ verified = 0
    /\ startTime = 0
    /\ thrown = ""
    /\ user = NoUser
    /\ call = NoCall
    /\ hops = 0
    /\ upstream = NoAnswer
    /\ fwd = NoFwd
    /\ response = NoResponse
    /\ log = {}
    /\ clock = 0
    /\ env \in Envs
    /\ StartupError(env) = ""
    /\ waited = 0
    /\ boot = "serving"
    /\ serviceUrls = ServiceUrlsOf(env)
    /\ probes = SettledProbes(serviceUrls)
    /\ warmupAgents = WarmupAgentsOf(probes, serviceUrls)
    /\ NoHistory
    /\ ConsumerOff

\* the router dispatches an inbound request: to the guard of a guarded
\* handler, to an unguarded handler, or to a 404 (apiRoot, or no route at all)
Dispatch(r) ==
    LET h == MatchRoute(r.method, r.url.path)
    IN  /\ req' = r
        /\ handler' = h
        /\ IF h = "none"
           THEN /\ pc' = "responded"
                /\ response' = [status |-> 404, kind |-> "exception", code |-> "Not Found",
                                message |-> "Cannot route", value |-> NoValue,
                                location |-> ""]
                /\ log' = {}
           ELSE IF h = "apiRoot"
           THEN /\ pc' = "responded"
                /\ response' = Envelope(404, "NOT_FOUND", "Cannot route. Available endpoints")
                /\ log' = {<<"controller", "warn">>}
           ELSE /\ pc' = IF UseGuards(h) THEN "guard" ELSE "handler"
                /\ response' = NoResponse
                /\ log' = {}
        /\ UNCHANGED <<guard, verified, startTime, thrown, user, call, hops, upstream, fwd, clock, env,
                      waited, processVars>>

Receive ==
    /\ boot = "serving"
    /\ pc = "idle"
    /\ \E r \in GatewayRequests : Dispatch(r)

\* JwtAuthGuard.canActivate runs to completion: it reads the clock in
\* jwt.verify and again in its own expiry check
Guard(now2) ==
    LET g == canActivate(req, clock, now2)
    IN  /\ clock' = now2
        /\ verified' = g.verifyCalls
        /\ startTime' = clock
        /\ thrown' = g.thrown
        /\ IF g.accept
           THEN /\ guard' = "accepted"
                /\ user' = g.user
                /\ pc' = "handler"
                /\ response' = response
           ELSE /\ guard' = "rejected"
                /\ user' = g.user
                /\ pc' = "responded"
                /\ response' = [status |-> 401, kind |-> "exception", code |-> "Unauthorized",
                                message |-> g.message, value |-> NoValue, location |-> ""]
        /\ UNCHANGED <<req, handler, call, hops, upstream, fwd, log, env, waited, processVars>>

CanActivate ==
    /\ pc = "guard"
    /\ \E now2 \in {clock, clock + 1} : now2 <= MaxClock /\ Guard(now2)

\* the handler runs up to the await of the HTTP call inside forwardRequest
Handle ==
    /\ pc = "handler"
    /\ LET serviceName == ServiceOf(handler)
           early == ThrowsBeforeCall(serviceUrls, env, serviceName, req.method)
           path == ForwardPath(handler, req.url)
           isHttps == startsWithHttps(serviceUrls[serviceName])
       IN  IF early # ""
           THEN /\ fwd' = Threw([name |-> "Error", code |-> "", message |-> early,
                                 status |-> 0, data |-> EmptyBody])
                /\ call' = call
                /\ pc' = "returned"
                /\ log' = log \cup {<<"controller", "info">>}
                              \cup (IF ThrowsBeforeTry(serviceUrls, env, serviceName) # ""
                                    THEN {}
                                    ELSE {<<"forwarder", "info">>, <<"forwarder", "error">>})
           ELSE /\ call' = [issued |-> TRUE, attempt |-> call.attempt + 1,
                            serviceName |-> serviceName,
                            url |-> serviceUrls[serviceName],
                            path |-> path,
                            method |-> req.method,
                            body |-> SendsBody(handler, req.method),
                            headers |-> configHeaders(serviceName, isHttps,
                                                      getHeaders(req, user)),
                            timeout |-> Timeout(PathText(path),
                                                ParseInt(DefaultTimeoutText(env))),
                            maxRedirects |-> maxRedirects(FollowRedirectsArg(handler)),
                            httpAgent |-> httpAgent(serviceName, isHttps),
                            httpsAgent |-> httpsAgent(serviceName, isHttps)]
                /\ fwd' = fwd
                /\ pc' = "awaiting"
                /\ log' = log \cup {<<"controller", "info">>, <<"forwarder", "info">>}
    /\ UNCHANGED <<req, handler, guard, verified, startTime, thrown, user, hops, upstream,
                   response, clock, env, waited, processVars>>

\* the backend answers (or the transport fails) and forwardRequest resumes
ForwardSettles(ans) ==
    /\ upstream' = ans
    /\ IF AxiosFollows(call, ans, hops)
       THEN /\ hops' = hops + 1
            /\ UNCHANGED <<pc, fwd, log>>
       ELSE /\ hops' = hops
            /\ fwd' = ForwardResult(ans)
            /\ pc' = AfterSettle(ForwardResult(ans))
            /\ log' = log \cup (IF ForwardResult(ans).kind = "throw"
                                THEN {<<"forwarder", "error">>}
                                ELSE {<<"forwarder", "info">>})
    /\ UNCHANGED <<req, handler, guard, verified, startTime, thrown, user, call, response,
                   clock, env, waited, processVars>>

\* the answer arrives before the deadline of the call
Settle ==
    /\ pc = "awaiting"
    /\ waited < call.timeout
    /\ HasSocket(call, suspended)
    /\ \E ans \in Answers : ForwardSettles(ans)

\* time passes while the call is pending
Elapse ==
    /\ pc = "awaiting"
    /\ waited < call.timeout
    /\ waited' = NextInstant(waited)
    /\ UNCHANGED <<pc, req, handler, guard, verified, startTime, thrown, user, call, hops,
                   upstream, fwd, response, log, clock, env, processVars>>

\* the deadline of the call expires: the HTTP client aborts it with its timeout error
Abort ==
    /\ pc = "awaiting"
    /\ waited >= call.timeout
    /\ ForwardSettles(TransportError("ECONNABORTED", TimeoutMessage(call.timeout)))

\* the handler resumes after forwardRequest and sends the response
Respond ==
    /\ pc = "returned"
    /\ IF handler = "heurekaOAuthCallback"
       THEN /\ response' = heurekaOAuthCallbackResponse(fwd, upstream)
            /\ log' = log \cup (IF fwd.kind = "throw" THEN {<<"controller", "error">>}
                                ELSE {<<"controller", "info">>})
       ELSE /\ response' = routeRequestResponse(ServiceOf(handler), fwd, upstream)
            /\ log' = log \cup (IF fwd.kind = "throw"
                                THEN routeRequestErrorLog(ServiceOf(handler), fwd.error)
                                ELSE {<<"controller", "info">>})
    /\ pc' = "responded"
    /\ UNCHANGED <<req, handler, guard, verified, startTime, thrown, user, call, hops, upstream,
                   fwd, clock, env, waited, processVars>>

\* the request context goes out of scope
Discard ==
    /\ pc' = "idle"
    /\ req' = NoReq
    /\ handler' = "none"
    /\ guard' = "none"
    /\ verified' = 0
    /\ startTime' = 0
    /\ thrown' = ""
    /\ user' = NoUser
    /\ call' = NoCall
    /\ hops' = 0
    /\ upstream' = NoAnswer
    /\ fwd' = NoFwd
    /\ response' = NoResponse
    /\ log' = {}
    /\ waited' = 0

\* the response is sent and the request context is discarded
Finish ==
    /\ pc = "responded"
    /\ Discard
    /\ UNCHANGED <<clock, env, processVars>>

\* time passes between requests
Tick ==
    /\ pc = "idle"
    /\ clock < MaxClock
    /\ clock' = clock + 1
    /\ UNCHANGED <<pc, req, handler, guard, verified, startTime, thrown, user, call, hops,
                   upstream, fwd,
                   response, log, env, waited, processVars>>

Next == Receive \/ CanActivate \/ Handle \/ Settle \/ Elapse \/ Abort \/ Respond \/ Finish \/ Tick

Spec == Init /\ [][Next]_vars

(***************************************************************************)
(* The guard alone, over a wide range of headers, tokens and clock values  *)
(***************************************************************************)
TopIdValues == {Undef, Str(""), Str("undefined"), Str("u1"), Num("7")}

NestedIdValues == {Undef, Str("null"), Str("u2")}

NestedUsers ==
    {Undef} \cup { UserObj(i, u, s, e, Undef) :
                     i \in NestedIdValues, u \in NestedIdValues, s \in NestedIdValues,
                     e \in {Undef, Str("c@x")} }

\* valid tokens that differ in where, and as what, they carry the user id
IdPayloads ==
    { Payload(i, s, u, usr, Undef, Undef, Undef, Num("1")) :
        i \in TopIdValues, s \in TopIdValues, u \in TopIdValues, usr \in NestedUsers }

\* valid tokens that differ in the email, createdAt and iat claims
EmailPayloads ==
    { Payload(i, s, Undef, usr, e, ue, c, ia) :
        i \in {Undef, Str("u1")}, s \in {Undef, Num("7")},
        usr \in {Undef, Null} \cup
                { UserObj(Undef, ui, Undef, ue2, uc) :
                    ui \in {Undef, Str("u2")}, ue2 \in {Undef, Str(""), Str("c@x")},
                    uc \in {Undef, Str("2020-01-01")} },
        e \in {Undef, Null, Str(""), Str("a@x")}, ue \in {Undef, Str("b@x")},
        c \in {Undef, Str("2020-01-01")}, ia \in {Undef, Num("1")} }

TimedPayloads ==
    { Payload(Undef, Str("u1"), Undef, Undef, Str("a@x"), Undef, Undef, Num("1")),
      Payload(Undef, Undef, Undef, Undef, Str("a@x"), Undef, Undef, Num("1")) }

OptionalTime == {{}} \cup { {n} : n \in 0..(MaxClock + 1) }

\* tokens that differ in signature, structure, nbf and exp
TimedJwts ==
    { Jwt(f, n, e, p) : f \in {"ok", "badsig", "malformed"}, n \in OptionalTime,
                        e \in OptionalTime, p \in TimedPayloads }

GuardHeaders ==
    { NoHeader,
      Header(<<>>),
      Header(BearerWord),
      Header(BearerWord \o <<" ">>),
      Header(BearerWord \o <<" ", " ">> \o TokenText),
      Header(BearerWord \o TokenText),
      Header(BearerWord \o <<" ">> \o TokenText),
      Header(BearerWord \o <<" ">> \o TokenText \o <<" ", "x">>),
      Header(BearerWord \o <<" ", "x">>),
      Header(<<" ">> \o BearerWord \o <<" ">> \o TokenText),
      Header(<<"b", "e", "a", "r", "e", "r", " ">> \o TokenText),
      Header(<<"B", "E", "A", "R", "E", "R", " ">> \o TokenText),
      Header(<<"B", "a", "s", "i", "c", " ">> \o TokenText),
      Header(TokenText) }

GuardedRequest(a, j) ==
    [method |-> "GET", url |-> Url(<<"api", "heureka", "feed">>, ""),
     authorization |-> a, jwt |-> j, others |-> NoOthers]

\* a request waiting at the guard of heurekaRoute
GuardInit ==
    /\ pc = "guard"
    /\ handler = "heurekaRoute"
    /\ guard = "none"
    /\ verified = 0
    /\ startTime = 0
    /\ thrown = ""
    /\ user = NoUser
    /\ call = NoCall
    /\ hops = 0
    /\ upstream = NoAnswer
    /\ fwd = NoFwd
    /\ response = NoResponse
    /\ log = {}
    /\ env = BaseEnv
    /\ waited = 0
    /\ boot = "serving"
    /\ serviceUrls = ServiceUrlsOf(env)
    /\ probes = SettledProbes(serviceUrls)
    /\ warmupAgents = WarmupAgentsOf(probes, serviceUrls)
    /\ NoHistory
    /\ ConsumerOff
    /\ \/ /\ clock = 0
          /\ \E p \in IdPayloads \cup EmailPayloads :
                req = GuardedRequest(BearerHeader, Jwt("ok", {}, {}, p))
       \/ /\ clock \in 0..MaxClock
          /\ \E j \in TimedJwts : req = GuardedRequest(BearerHeader, j)
       \/ /\ clock = 0
          /\ \E a \in GuardHeaders, p \in TimedPayloads :
                req = GuardedRequest(a, Jwt("ok", {}, {}, p))

GuardNext == CanActivate

GuardSpec == GuardInit /\ [][GuardNext]_vars

(***************************************************************************)
(* The forwarder's call configuration, over a wide range of paths,         *)
(* headers and configurations                                              *)
(***************************************************************************)
\* path segments with and without the words of the timeout classification
TimeoutWords ==
    {"offers", "publish-all", "republish-all", "clone", "cyclone", "bulk", "reimport",
     "validate", "revalidate", "heureka"}

ForwardUrls ==
    GatewayUrls
    \cup { Url(<<"api", "heureka", w>>, q) : w \in TimeoutWords, q \in {"", "next=/clone"} }
    \cup { Url(<<"api", "heureka", w1, w2>>, "") : w1 \in TimeoutWords, w2 \in TimeoutWords }

ForwardOthers == { NoOthers, [xUserId |-> "admin", cookie |-> "sid=1"] }

ForwardCredentials ==
    { [authorization |-> NoHeader, jwt |-> NoReq.jwt],
      [authorization |-> BearerHeader,
       jwt |-> Jwt("ok", {}, {}, Payload(Undef, Str("u1"), Undef, Undef, Undef, Undef,
                                         Undef, Num("1")))] }

ForwardRequests ==
    { [method |-> m, url |-> u, authorization |-> c.authorization, jwt |-> c.jwt,
       others |-> o] :
        m \in {"GET", "POST"}, u \in ForwardUrls, c \in ForwardCredentials,
        o \in ForwardOthers }

\* configurations that differ in the default timeout and in scheme and place
\* of the backends
ForwardEnvs ==
    { [BaseEnv EXCEPT !.GATEWAY_TIMEOUT = g, !.HTTP_TIMEOUT = h] :
        g \in {"", "30000"}, h \in {"", "60000"} }
    \cup { [BaseEnv EXCEPT !.AUTH_SERVICE_URL = ConfigUrl("http", "auth-service", "3370")],
           [BaseEnv EXCEPT !.HEUREKA_SERVICE_URL = ConfigUrl("https", "heureka.example.com", "")],
           [BaseEnv EXCEPT !.NODE_ENV = "development", !.AUTH_SERVICE_PORT = "3370"] }

ForwardInit ==
    /\ pc = "idle"
    /\ req = NoReq
    /\ handler = "none"
    /\ guard = "none"
    /\ verified = 0
    /\ startTime = 0
    /\ thrown = ""
    /\ user = NoUser
    /\ call = NoCall
    /\ hops = 0
    /\ upstream = NoAnswer
    /\ fwd = NoFwd
    /\ response = NoResponse
    /\ log = {}
    /\ clock = 0
    /\ env \in ForwardEnvs
    /\ StartupError(env) = ""
    /\ waited = 0
    /\ boot = "serving"
    /\ serviceUrls = ServiceUrlsOf(env)
    /\ probes = SettledProbes(serviceUrls)
    /\ warmupAgents = WarmupAgentsOf(probes, serviceUrls)
    /\ NoHistory
    /\ ConsumerOff

\* a request arrives and is routed
Offer ==
    /\ boot = "serving"
    /\ pc = "idle"
    /\ \E r \in ForwardRequests : Dispatch(r)

ForwardNext == Offer \/ CanActivate \/ Handle

ForwardSpec == ForwardInit /\ [][ForwardNext]_vars

(***************************************************************************)
(* Process start: module instantiation, warmup, first request              *)
(***************************************************************************)
NoProbes == [n \in ServiceNames |-> "none"]

\* validateStatus of a warmup probe
warmupValidateStatus(status) == status >= 200 /\ status < 500

\* what a warmup probe can meet: a response, a transport failure, its 10 s timeout
ProbeAnswers ==
    { Resp(200, EmptyBody, ""), Resp(404, EmptyBody, ""), Resp(503, EmptyBody, ""),
      TransportError("ECONNREFUSED", "connect ECONNREFUSED"),
      TransportError("ECONNABORTED", "timeout of 10000ms exceeded") }

\* the probe of a base URL that does not parse fails before any I/O
ProbeAnswersFor(baseUrl) ==
    IF WellFormedUrl(baseUrl) THEN ProbeAnswers
    ELSE { TransportError("ERR_INVALID_URL", "Invalid URL") }

\* warmupServiceConnection: its promise after the probe settled; the catch
\* block logs the failure and does not rethrow
warmupServiceConnection(ans) ==
    IF ans.kind = "response" /\ warmupValidateStatus(ans.status) THEN "warmed" ELSE "swallowed"

\* .catch(error => log) attached to each probe in onModuleInit
CatchLogged(p) == IF p = "rejected" THEN "swallowed" ELSE p

\* the loop of onModuleInit: a probe for every backend but https auth
IssueProbes(urls) ==
    [n \in ServiceNames |->
        IF n = "auth" /\ startsWithHttps(urls[n]) THEN "skipped" ELSE "pending"]

AnySettled(p) == \E n \in ServiceNames : p[n] \notin {"none", "pending"}

\* Promise.allSettled(warmupPromises) resolves
AllSettled(p) == \A n \in ServiceNames : p[n] \notin {"none", "pending"}

\* configurations that differ in what is set, and how
StartupEnvs ==
    { [BaseEnv EXCEPT !.NODE_ENV = n, !.GATEWAY_TIMEOUT = g, !.JWT_SECRET = j,
                      !.HEUREKA_SERVICE_URL = hu, !.HEUREKA_SERVICE_PORT = hp,
                      !.AUTH_SERVICE_URL = au, !.AUTH_SERVICE_PORT = ap] :
        n \in {"production", "development"}, g \in {"", "30000"}, j \in {"", "secret"},
        hu \in {NoUrl, ConfigUrl("http", "heureka-service", "3000"),
                ConfigUrl("", "heureka-service", "")},
        hp \in {"", "3000", "abc"},
        au \in {NoUrl, ConfigUrl("https", "auth.example.com", "")},
        ap \in {"", "3370"} }

StartupRequests ==
    { [method |-> "GET", url |-> Url(<<"api", "heureka", "oauth", "callback">>, "code=x"),
       authorization |-> NoHeader, jwt |-> NoReq.jwt, others |-> NoOthers],
      [method |-> "POST", url |-> Url(<<"api", "auth", "login">>, ""),
       authorization |-> NoHeader, jwt |-> NoReq.jwt, others |-> NoOthers],
      [method |-> "GET", url |-> Url(<<"api", "settings">>, ""),
       authorization |-> BearerHeader,
       jwt |-> Jwt("ok", {}, {}, Payload(Undef, Str("u1"), Undef, Undef, Undef, Undef,
                                         Undef, Num("1"))),
       others |-> NoOthers] }

StartupInit ==
    /\ pc = "idle"
    /\ req = NoReq
    /\ handler = "none"
    /\ guard = "none"
    /\ verified = 0
    /\ startTime = 0
    /\ thrown = ""
    /\ user = NoUser
    /\ call = NoCall
    /\ hops = 0
    /\ upstream = NoAnswer
    /\ fwd = NoFwd
    /\ response = NoResponse
    /\ log = {}
    /\ clock = 0
    /\ env \in StartupEnvs
    /\ waited = 0
    /\ boot = "starting"
    /\ serviceUrls = NoServiceUrls
    /\ probes = NoProbes
    /\ warmupAgents = NoWarmupAgents
    /\ NoHistory
    /\ ConsumerOff

requestVars == <<pc, req, handler, guard, verified, startTime, thrown, user, call, hops,
                 upstream, fwd, response, log, clock, env, waited>>

\* the module is instantiated: HttpModule factory, JwtAuthGuard and
\* GatewayService constructors; a constructor that throws ends the process
Construct ==
    /\ boot = "starting"
    /\ IF StartupError(env) # ""
       THEN boot' = "failed" /\ serviceUrls' = serviceUrls
       ELSE boot' = "constructed" /\ serviceUrls' = ServiceUrlsOf(env)
    /\ UNCHANGED <<requestVars, probes, warmupAgents, restVars>>

\* onModuleInit up to its await: every probe is issued
OnModuleInit ==
    /\ boot = "constructed"
    /\ boot' = "warming"
    /\ probes' = IssueProbes(serviceUrls)
    /\ warmupAgents' = WarmupAgentsOf(probes', serviceUrls)
    /\ UNCHANGED <<requestVars, serviceUrls, restVars>>

\* one pending probe settles
ProbeSettles ==
    /\ boot = "warming"
    /\ \E n \in ServiceNames :
          /\ probes[n] = "pending"
          /\ \E ans \in ProbeAnswersFor(serviceUrls[n]) :
                probes' = [probes EXCEPT ![n] = CatchLogged(warmupServiceConnection(ans))]
    /\ UNCHANGED <<requestVars, boot, serviceUrls, warmupAgents, restVars>>

\* the await of onModuleInit resumes; the process starts to serve
WarmupCompletes ==
    /\ boot = "warming"
    /\ AllSettled(probes)
    /\ boot' = "serving"
    /\ UNCHANGED <<requestVars, serviceUrls, probes, warmupAgents, restVars>>

FirstRequest ==
    /\ boot = "serving"
    /\ pc = "idle"
    /\ \E r \in StartupRequests : Dispatch(r)

StartupNext ==
    \/ Construct \/ OnModuleInit \/ ProbeSettles \/ WarmupCompletes
    \/ FirstRequest \/ CanActivate \/ Handle

StartupSpec == StartupInit /\ [][StartupNext]_vars

\* every probe settles (its timeout bounds it) and continuations are run
StartupLiveSpec ==
    /\ StartupSpec
    /\ WF_vars(Construct) /\ WF_vars(OnModuleInit)
    /\ WF_vars(ProbeSettles) /\ WF_vars(WarmupCompletes)

(***************************************************************************)
(* One forward call after another, with the previous one remembered        *)
(***************************************************************************)
\* the arguments the handler of the current request passes to forwardRequest
ForwardArgs ==
    [serviceName |-> ServiceOf(handler), path |-> ForwardPath(handler, req.url),
     method |-> req.method, body |-> SendsBody(handler, req.method),
     headers |-> getHeaders(req, user), followRedirects |-> FollowRedirectsArg(handler)]

\* requests to the unguarded forwarding routes
RepeatRequests ==
    { [method |-> "GET", url |-> Url(<<"api", "heureka", "oauth", "callback">>, "code=x"),
       authorization |-> NoHeader, jwt |-> NoReq.jwt, others |-> NoOthers],
      [method |-> "POST", url |-> Url(<<"api", "auth", "login">>, ""),
       authorization |-> NoHeader, jwt |-> NoReq.jwt, others |-> NoOthers],
      [method |-> "HEAD", url |-> Url(<<"api", "auth", "profile">>, ""),
       authorization |-> NoHeader, jwt |-> NoReq.jwt, others |-> NoOthers] }
    \cup { [method |-> "GET", url |-> Url(<<"api", "auth", "profile">>, ""),
             authorization |-> a, jwt |-> NoReq.jwt, others |-> NoOthers] :
               a \in {NoHeader, BearerHeader} }

RepeatInit == Init /\ env = BaseEnv

Repeat ==
    /\ boot = "serving"
    /\ pc = "idle"
    /\ \E r \in RepeatRequests : Dispatch(r)

\* the response is sent; the finished forward call becomes the previous one
Remember ==
    /\ pc = "responded"
    /\ last' = [args |-> ForwardArgs, upstream |-> upstream, fwd |-> fwd]
    /\ Discard
    /\ UNCHANGED <<clock, env, boot, serviceUrls, probes, warmupAgents, suspended,
                   consumerVars>>

RepeatNext == Repeat \/ Handle \/ Settle \/ Elapse \/ Abort \/ Respond \/ Remember

RepeatSpec == RepeatInit /\ [][RepeatNext]_vars

(***************************************************************************)
(* Requests in flight together: the event loop runs one handler at a time  *)
(* and switches at the await of the backend call                           *)
(***************************************************************************)
\* requests that can be in flight at once
MaxInFlight == 2

\* what a request keeps while it is suspended at the await
Context ==
    [req |-> req, handler |-> handler, guard |-> guard, verified |-> verified,
     startTime |-> startTime, thrown |-> thrown, user |-> user, call |-> call,
     hops |-> hops, log |-> log, waited |-> waited]

RemoveAt(q, i) == [j \in 1..(Len(q) - 1) |-> IF j < i THEN q[j] ELSE q[j + 1]]

ConcurrentRequests ==
    { [method |-> "GET", url |-> Url(<<"api", "heureka", "feed">>, "type=x"),
       authorization |-> BearerHeader,
       jwt |-> Jwt("ok", {}, {}, Payload(Undef, Str("u1"), Undef, Undef, Undef, Undef,
                                         Undef, Num("1"))),
       others |-> NoOthers],
      [method |-> "POST", url |-> Url(<<"api", "auth", "login">>, ""),
       authorization |-> NoHeader, jwt |-> NoReq.jwt, others |-> NoOthers] }

ConcurrentInit == Init /\ env = BaseEnv

Arrive ==
    /\ boot = "serving"
    /\ pc = "idle"
    /\ \E r \in ConcurrentRequests : Dispatch(r)

\* the running request reaches await axiosPromise: it is parked and the
\* event loop is free for another request
Suspend ==
    /\ pc = "awaiting"
    /\ Len(suspended) < MaxInFlight - 1
    /\ suspended' = Append(suspended, Context)
    /\ Discard
    /\ UNCHANGED <<clock, env, boot, serviceUrls, probes, warmupAgents, last, consumerVars>>

\* the event loop turns to a parked request, whose call is still pending
Resume ==
    /\ pc = "idle"
    /\ \E i \in 1..Len(suspended) :
          LET c == suspended[i]
          IN  /\ pc' = "awaiting"
              /\ req' = c.req
              /\ handler' = c.handler
              /\ guard' = c.guard
              /\ verified' = c.verified
              /\ startTime' = c.startTime
              /\ thrown' = c.thrown
              /\ user' = c.user
              /\ call' = c.call
              /\ hops' = c.hops
              /\ log' = c.log
              /\ waited' = c.waited
              /\ suspended' = RemoveAt(suspended, i)
    /\ UNCHANGED <<upstream, fwd, response, clock, env, boot, serviceUrls, probes,
                   warmupAgents, last, consumerVars>>

ConcurrentNext ==
    \/ Arrive \/ CanActivate \/ Handle \/ Settle \/ Elapse \/ Abort \/ Respond \/ Finish
    \/ Suspend \/ Resume

ConcurrentSpec == ConcurrentInit /\ [][ConcurrentNext]_vars

(***************************************************************************)
(* StockEventsSubscriber: the consumer of the stock-events queue           *)
(***************************************************************************)
gatewayVars == <<requestVars, boot, serviceUrls, probes, warmupAgents, last, suspended>>

ConsumerInit == Init /\ env = BaseEnv

\* onModuleInit: connect() opens the channel, or fails and leaves it null
\* (the error is logged); subscribe() returns at once without a channel
Connect ==
    /\ channel = "none"
    /\ \E connected \in BOOLEAN :
          channel' = IF connected THEN "open" ELSE "unavailable"
    /\ UNCHANGED <<store, deliveries, gatewayVars>>

\* the consume callback up to its first await on the database: parse, the
\* switch of handleStockEvent, and the settlement when no query is made
Callback(d, c) ==
    LET m == [d EXCEPT !.content = c]
    IN  IF JsonParseThrows(c) \/ DestructureThrows(c)
        THEN Settlement(m, TRUE, channel, store)
        ELSE IF ReachesUpdateOfferStock(c)
        THEN [m EXCEPT !.stage = "finding", !.want = shouldInclude(c)]
        ELSE Settlement(m, FALSE, channel, store)

\* the broker delivers the next message of the queue to the callback
Deliver ==
    /\ channel = "open"
    /\ \E i \in 1..MaxMessages, c \in Contents :
          /\ deliveries[i].stage = "queued"
          /\ IF i = 1 THEN TRUE ELSE deliveries[i - 1].stage # "queued"
          /\ deliveries' = [deliveries EXCEPT ![i] = Callback(deliveries[i], c)]
    /\ UNCHANGED <<channel, store, gatewayVars>>

\* updateOfferStock after findUnique settled: a rejected query is caught and
\* logged; a row whose flag differs is updated; otherwise the handler is done
AfterFind(d, ok) ==
    LET row == findUnique(store, d.content.productId)
    IN  IF ok /\ row.found /\ row.isIncluded # d.want
        THEN [d EXCEPT !.stage = "updating"]
        ELSE Settlement(d, FALSE, channel, store)

FindSettles ==
    /\ \E i \in 1..MaxMessages, ok \in BOOLEAN :
          /\ deliveries[i].stage = "finding"
          /\ deliveries' = [deliveries EXCEPT ![i] = AfterFind(deliveries[i], ok)]
    /\ UNCHANGED <<channel, store, gatewayVars>>

\* updateOfferStock after update settled: the row is written, or the
\* rejection is caught and logged; either way the handler is done
UpdateSettles ==
    /\ \E i \in 1..MaxMessages, ok \in BOOLEAN :
          LET d == deliveries[i]
              written == IF ok THEN [store EXCEPT ![d.content.productId] = d.want] ELSE store
          IN  /\ d.stage = "updating"
              /\ store' = written
              /\ deliveries' = [deliveries EXCEPT
                    ![i] = Settlement([d EXCEPT !.wrote = ok], FALSE, channel, written)]
    /\ UNCHANGED <<channel, gatewayVars>>

\* onModuleDestroy closes the channel, whatever the callbacks in progress
OnModuleDestroy ==
    /\ channel = "open"
    /\ channel' = "closed"
    /\ UNCHANGED <<store, deliveries, gatewayVars>>

ConsumerNext == Connect \/ Deliver \/ FindSettles \/ UpdateSettles \/ OnModuleDestroy

ConsumerSpec == ConsumerInit /\ [][ConsumerNext]_vars

(***************************************************************************)
(* Properties                                                              *)
(***************************************************************************)
PublicPaths ==
    { <<"api", "auth", "login">>, <<"api", "auth", "register">>,
      <<"api", "auth", "refresh">>, <<"api", "heureka", "oauth", "callback">> }

\* C1: a backend call is issued only for an allow-listed public route (auth
\* login, register, refresh, the OAuth callback) or after the guard accepted
\* the request.
C1_BackendCallOnlyAfterGuard ==
    call.issued => (req.url.path \in PublicPaths \/ guard = "accepted")

GuardedHandlers == {"heurekaRoute", "importRoute", "settingsRoute", "settingsBaseRoute"}

\* C2: on a guarded route no forwarding step (handler, forwardRequest, backend
\* call) exists before the guard has finished, and after a rejection none
\* ever does: the request ends with the guard's 401.
C2_GuardFinishesBeforeForwarding ==
    handler \in GuardedHandlers =>
        /\ guard = "none" => (pc = "guard" /\ ~call.issued /\ fwd.kind = "none")
        /\ guard = "rejected" =>
              (pc = "responded" /\ ~call.issued /\ fwd.kind = "none"
               /\ upstream.kind = "none" /\ response.status = 401)
        /\ pc \in {"handler", "awaiting", "returned"} => guard = "accepted"

C2_Witness ==
    /\ handler = "settingsBaseRoute"
    /\ guard = "rejected"
    /\ pc = "responded"
    /\ response.status = 401
    /\ ~call.issued

GuardDone == guard # "none"

\* the request carries 'Bearer <token>' and the token's structure and signature verify
WellSigned == req.authorization = BearerHeader /\ req.jwt.form = "ok"

Rejected401(m) ==
    /\ guard = "rejected"
    /\ response.status = 401
    /\ response.message = m

\* C3: a token whose expiry has passed is rejected with 401 'Token expired',
\* one whose signature or structure fails with 401 'Invalid token', any other
\* verification failure with 401 'Token validation failed'.
C3_RejectionReasons ==
    GuardDone /\ req.authorization = BearerHeader =>
        /\ (req.jwt.form = "ok" /\ req.jwt.nbf = {}
            /\ \E e \in req.jwt.exp : e < startTime)
              => Rejected401("Token expired")
        /\ req.jwt.form \in {"badsig", "malformed"} => Rejected401("Invalid token")
        /\ (req.jwt.form = "ok" /\ req.jwt.exp = {}
            /\ \E n \in req.jwt.nbf : n > clock)
              => Rejected401("Token validation failed")

\* the six places a user id is looked for
ClaimedIdFields(d) ==
    <<d.id, d.sub, d.userId,
      IF d.user.t = "object" THEN d.user.id ELSE Undef,
      IF d.user.t = "object" THEN d.user.userId ELSE Undef,
      IF d.user.t = "object" THEN d.user.sub ELSE Undef>>

\* C4: a validly signed, unexpired token that carries none of the candidate
\* id fields is rejected with 401 and the reason
\* 'Invalid token payload: missing user ID', with or without an email.
C4_MissingIdReason ==
    (GuardDone /\ WellSigned /\ req.jwt.exp = {} /\ req.jwt.nbf = {}
     /\ \A i \in 1..6 : ClaimedIdFields(req.jwt.payload)[i] = Undef)
        => Rejected401("Invalid token payload: missing user ID")

\* a candidate that is non-empty and not the literal 'undefined' or 'null'
Qualifies(c) == Truthy(c) /\ ToStringJS(c) \notin {"undefined", "null"}

Least(S) == CHOOSE i \in S : \A j \in S : i <= j

\* the token verifies and building the identity does not fail on createdAt
Verifies ==
    /\ WellSigned
    /\ req.jwt.exp = {}
    /\ req.jwt.nbf = {}
    /\ req.jwt.payload.iat.t = "number"

C6_PlaceholderEmail ==
    (/\ GuardDone /\ WellSigned /\ req.jwt.exp = {} /\ req.jwt.nbf = {}
     /\ \E i \in 1..6 : Truthy(ClaimedIdFields(req.jwt.payload)[i])
     /\ LET c == ClaimedIdFields(req.jwt.payload)
        IN  Qualifies(c[Least({i \in 1..6 : Truthy(c[i])})])
     /\ req.jwt.payload.email = Undef
     /\ req.jwt.payload.userEmail = Undef
     /\ (req.jwt.payload.user.t = "object" => req.jwt.payload.user.email = Undef))
        => (guard = "accepted" /\ user.email = "user-" \o user.id \o "@unknown")

\* the header reads 'Bearer ' followed by a non-empty token
BearerForm(a) ==
    /\ a.present
    /\ Len(a.chars) >= 8
    /\ SubSeq(a.chars, 1, 7) = <<"B", "e", "a", "r", "e", "r", " ">>
    /\ a.chars[8] # " "

\* C7: a token is verified only for a header of the form 'Bearer <token>'
\* with a non-empty token; every other header, and no header, is rejected
\* with 401 'No token provided' without any verification.
C7_OnlyBearerIsVerified ==
    GuardDone =>
        IF BearerForm(req.authorization)
        THEN verified = 1
        ELSE verified = 0 /\ Rejected401("No token provided")

C7_Witness ==
    /\ req.authorization = Header(<<"b", "e", "a", "r", "e", "r", " ">> \o TokenText)
    /\ verified = 0
    /\ Rejected401("No token provided")

\* C8: an upstream 401 with body {message: m} on the auth backend reaches the
\* client as 401 {success:false, error:{code:'UNAUTHORIZED', message:m}} and
\* neither the forwarder nor the controller logs at error severity.
C8_Auth401PassedThrough ==
    (/\ pc = "responded" /\ call.issued /\ call.serviceName = "auth"
     /\ upstream.kind = "response" /\ upstream.status = 401
     /\ upstream.body.message # "")
        => /\ response.status = 401
           /\ response.kind = "envelope"
           /\ response.code = "UNAUTHORIZED"
           /\ response.message = upstream.body.message
           /\ <<"forwarder", "error">> \notin log
           /\ <<"controller", "error">> \notin log

\* C9: an upstream response with a status in 200..599 that is not 3xx reaches
\* the client with that same status and the upstream body unmodified.
C9_UpstreamStatusKept ==
    (/\ pc = "responded" /\ upstream.kind = "response"
     /\ upstream.status >= 200 /\ upstream.status <= 599
     /\ ~(upstream.status >= 300 /\ upstream.status <= 399))
        => /\ response.status = upstream.status
           /\ response.kind = "json"
           /\ response.value.data = upstream.body

\* C10: forwardRequest never follows a redirect, whatever followRedirects is,
\* and a 3xx answer yields the redirect descriptor with that status and the
\* upstream Location, never the response body.
C10_RedirectsReturnedNotFollowed ==
    /\ hops = 0
    /\ call.issued => call.maxRedirects = 0
    /\ (/\ fwd.kind # "none" /\ upstream.kind = "response"
        /\ upstream.status >= 300 /\ upstream.status <= 399)
          => /\ fwd.kind = "return"
             /\ fwd.value.isRedirect
             /\ fwd.value.status = upstream.status
             /\ fwd.value.location = upstream.location
             /\ fwd.value.data # upstream.body

C10_Witness ==
    /\ handler = "heurekaRoute"
    /\ fwd.kind = "return"
    /\ fwd.value.isRedirect
    /\ fwd.value.status = 307
    /\ fwd.value.location = "https://shop/cb"
    /\ hops = 0

ConnectionFailureCodes == {"ECONNREFUSED", "ENOTFOUND", "ETIMEDOUT"}

ServiceUnavailable503 ==
    /\ response.status = 503
    /\ response.kind = "envelope"
    /\ response.code = "SERVICE_UNAVAILABLE"

\* C11: a transport failure with code ECONNREFUSED, ENOTFOUND or ETIMEDOUT on a
\* forwarded call reaches the client as 503 SERVICE_UNAVAILABLE, for every
\* backend and every route, the OAuth callback included.
C11_ConnectionFailureIs503 ==
    (/\ pc = "responded" /\ call.issued
     /\ upstream.kind = "error" /\ upstream.code \in ConnectionFailureCodes)
        => ServiceUnavailable503

\* C12: a forwarded call carries the deadline of its timeout class and is
\* never pending past it; when the deadline expires the call is aborted and
\* the request ends with 503 SERVICE_UNAVAILABLE.
C12_DeadlineEndsIn503 ==
    /\ call.issued =>
          call.timeout = Timeout(PathText(call.path), ParseInt(DefaultTimeoutText(env)))
    /\ pc = "awaiting" => waited <= call.timeout
    /\ (pc = "responded" /\ call.issued /\ waited >= call.timeout
        /\ upstream.code = "ECONNABORTED")
          => ServiceUnavailable503

\* C13: an upstream 409 reaches the client as 409 with the envelope code
\* CONFLICT and the upstream message.
C13_Conflict409PassedThrough ==
    (/\ pc = "responded" /\ call.issued
     /\ upstream.kind = "response" /\ upstream.status = 409)
        => /\ response.status = 409
           /\ response.kind = "envelope"
           /\ response.code = "CONFLICT"
           /\ response.message \in {upstream.body.message, upstream.body.errorMessage}

TaxonomyCodes == {"UNAUTHORIZED", "SERVICE_UNAVAILABLE", "CONFLICT", "GATEWAY_ERROR"}

\* the status the classification assigns to a taxonomy code
TaxonomyStatus(c, st) ==
    CASE c = "UNAUTHORIZED" -> st = 401
      [] c = "SERVICE_UNAVAILABLE" -> st = 503
      [] c = "CONFLICT" -> st = 409
      [] c = "GATEWAY_ERROR" -> st = (IF fwd.error.status # 0 THEN fwd.error.status ELSE 500)
      [] OTHER -> FALSE

\* C14: every failure of a forwarded call ends in the envelope
\* {success:false, error:{code, message}} with a taxonomy code and the status
\* the classification assigns to it; no other code reaches the caller.
C14_FailuresUseTaxonomy ==
    (pc = "responded" /\ fwd.kind = "throw")
        => /\ response.kind = "envelope"
           /\ response.code \in TaxonomyCodes
           /\ TaxonomyStatus(response.code, response.status)

\* the path text of the issued call contains the word w
PathContains(w) == Includes(PathText(call.path), Spell(w))

\* the path text of the issued call contains '/' followed by the word w
PathContainsSlash(w) == Includes(PathText(call.path), <<"/">> \o Spell(w))

ConfiguredDefault == ParseInt(IF env.GATEWAY_TIMEOUT # "" THEN env.GATEWAY_TIMEOUT
                              ELSE env.HTTP_TIMEOUT)

\* C15 as stated: a path containing 'publish-all' or 'clone' gets 600000 ms,
\* otherwise one containing 'import' or 'bulk' 120000 ms, otherwise one
\* containing 'validate/' 90000 ms, otherwise the configured default.
C15_TimeoutClassByWord ==
    call.issued =>
        call.timeout =
            IF PathContains("publish-all") \/ PathContains("clone") THEN 600000
            ELSE IF PathContains("import") \/ PathContains("bulk") THEN 120000
            ELSE IF Includes(PathText(call.path), Spell("validate") \o <<"/">>) THEN 90000
            ELSE ConfiguredDefault

\* C15 amended: the words count only where a '/' precedes them in the path
\* text (path and query string) passed to forwardRequest: '/publish-all' or
\* '/clone' gives 600000 ms, otherwise '/import' or '/bulk' 120000 ms,
\* otherwise '/validate/' 90000 ms, otherwise the configured default; a
\* '/publish-all' path has a strictly greater timeout than a path with only
\* '/bulk'.
C15_TimeoutClassBySlashWord ==
    call.issued =>
        /\ call.timeout =
              IF PathContainsSlash("publish-all") \/ PathContainsSlash("clone") THEN 600000
              ELSE IF PathContainsSlash("import") \/ PathContainsSlash("bulk") THEN 120000
              ELSE IF Includes(PathText(call.path), <<"/">> \o Spell("validate") \o <<"/">>)
              THEN 90000
              ELSE ConfiguredDefault
        /\ PathContainsSlash("publish-all") => call.timeout > 120000
        /\ (PathContainsSlash("bulk") /\ ~PathContainsSlash("publish-all")
            /\ ~PathContainsSlash("clone")) => call.timeout = 120000

C15_Witness ==
    /\ call.issued
    /\ call.path.segs = <<"heureka", "bulk", "publish-all">>
    /\ call.timeout = 600000

\* C16: the external encrypted pool (no connection reuse) is used exactly
\* when the url is https and the backend is auth; every other combination,
\* auth over plain http included, uses the internal keep-alive pool of the
\* url's scheme.
C16_ExternalPoolOnlyForHttpsAuth ==
    call.issued =>
        IF startsWithHttps(call.url) /\ call.serviceName = "auth"
        THEN AgentUsed(call) = "externalHttpsAgent" /\ ~Agents[AgentUsed(call)].keepAlive
        ELSE /\ AgentUsed(call) = (IF startsWithHttps(call.url) THEN "httpsAgent"
                                   ELSE "httpAgent")
             /\ Agents[AgentUsed(call)].keepAlive

\* C19: the forwarded headers carry, of the inbound request, only the
\* Authorization header (when present) and X-User-Id, which is sent exactly
\* when the guard resolved an identity and then is that identity's id; no
\* other inbound header, a client-supplied X-User-Id included, has any
\* influence.
C19_OnlyAuthorizationAndUserIdForwarded ==
    call.issued =>
        /\ call.headers.authorization =
              (IF req.authorization.present /\ req.authorization.chars # <<>>
               THEN req.authorization ELSE NoHeader)
        /\ call.headers.userId = (IF guard = "accepted" THEN user.id ELSE "")
        /\ guard = "accepted" => user.id # ""
        /\ call.headers.contentType = "application/json"
        /\ call.headers.connection =
              (IF call.serviceName = "auth" /\ call.url.scheme = "https" THEN "close" ELSE "")

C19_Witness ==
    /\ call.issued
    /\ req.others.xUserId = "admin"
    /\ guard = "none"
    /\ call.headers.userId = ""
    /\ call.headers.authorization = BearerHeader

Started == boot \in {"constructed", "warming", "serving"}

\* C17: without a default timeout (GATEWAY_TIMEOUT or HTTP_TIMEOUT) or without
\* the token secret the process does not start, so no forwarded request ever
\* fails because the default timeout is missing.
C17_StartupRequiresTimeoutAndSecret ==
    /\ Started => (env.JWT_SECRET # "" /\ (env.GATEWAY_TIMEOUT # "" \/ env.HTTP_TIMEOUT # ""))
    /\ fwd.kind = "throw" =>
          fwd.error.message # "GATEWAY_TIMEOUT or HTTP_TIMEOUT must be configured in .env file"

\* C18: once the service is constructed every backend name maps to a
\* non-empty, well-formed base URL, so forwardRequest never fails with
\* 'not configured' or a URL-parse error.
C18_BackendUrlsWellFormed ==
    /\ Started => \A n \in ServiceNames :
                     serviceUrls[n] # NoUrl /\ WellFormedUrl(serviceUrls[n])
    /\ fwd.kind = "throw" => fwd.error.message \notin {"Service not configured", "Invalid URL"}

\* C20: warmup issues all of its probes before it waits, finishes only when
\* every probe has settled, never fails the process whichever probes fail,
\* and always finishes: a process that began warmup goes on to serve.
C20_WarmupAlwaysFinishes ==
    /\ [](boot \in {"warming", "serving"} => \A n \in ServiceNames : probes[n] # "none")
    /\ [](boot = "serving" =>
            \A n \in ServiceNames : probes[n] \in {"skipped", "warmed", "swallowed"})
    /\ [](\A n \in ServiceNames : probes[n] # "rejected")
    /\ [](boot = "failed" => (StartupError(env) # "" /\ probes = NoProbes))
    /\ (boot = "warming" ~> boot = "serving")

C20_Witness ==
    /\ boot = "serving"
    /\ probes["heureka"] = "swallowed"
    /\ probes["import"] = "swallowed"
    /\ probes["settings"] = "swallowed"
    /\ pc = "awaiting"

\* the pool forwardRequest selects for calls to a backend
PoolOfCalls(n) ==
    LET isHttps == startsWithHttps(serviceUrls[n])
    IN  IF isHttps THEN httpsAgent(n, isHttps) ELSE httpAgent(n, isHttps)

\* C21: at startup one health probe is issued for every configured backend
\* (auth is skipped exactly when its URL is https), and each probe goes
\* through the pool forwardRequest selects for calls to that backend, so the
\* pool warmed is the pool later used.
C21_WarmedPoolIsUsedPool ==
    /\ boot \in {"warming", "serving"} =>
          \A n \in ServiceNames :
             /\ probes[n] # "none"
             /\ probes[n] = "skipped" <=> (n = "auth" /\ startsWithHttps(serviceUrls[n]))
             /\ probes[n] # "skipped" => warmupAgents[n] = PoolOfCalls(n)
    /\ (call.issued /\ warmupAgents[call.serviceName] # "") =>
          warmupAgents[call.serviceName] = AgentUsed(call)

\* the current forward call has the arguments and the upstream answer of the previous one
SameCallAsLast ==
    /\ pc \in {"returned", "responded"}
    /\ fwd.kind # "none"
    /\ last.fwd.kind # "none"
    /\ last.args = ForwardArgs
    /\ last.upstream = upstream

C23_AtMostOneCall ==
    /\ call.attempt + hops <= 1
    /\ call.issued <=> call.attempt = 1

\* a request whose only call failed on the connection and was answered 503
C23_Witness ==
    /\ pc = "responded"
    /\ call.attempt = 1
    /\ fwd.kind = "throw"
    /\ fwd.error.code = "ECONNRESET"

\* C24: requests are independent while suspended: while a request is parked
\* at the await of its backend call, another request can take every one of
\* its steps (guard check, forward call, answer or deadline, response) and a
\* parked request can be resumed; no step of one request has to wait for
\* another request.
C24_SuspendedRequestsDoNotBlock ==
    suspended # <<>> =>
        /\ pc = "guard" => ENABLED CanActivate
        /\ pc = "handler" => ENABLED Handle
        /\ (pc = "awaiting" /\ waited < call.timeout) => ENABLED Settle
        /\ (pc = "awaiting" /\ waited >= call.timeout) => ENABLED Abort
        /\ pc = "returned" => ENABLED Respond
        /\ pc = "responded" => ENABLED Finish
        /\ pc = "idle" => ENABLED Resume

\* a guarded request was answered 200 by its backend while an earlier call
\* to the same backend is still parked
C24_Witness ==
    /\ suspended # <<>>
    /\ pc = "responded"
    /\ guard = "accepted"
    /\ response.status = 200
    /\ SamePool(suspended[1].call, call)

\* the request in progress is GET /api/heureka/oauth/callback
IsOAuthCallbackGet ==
    /\ pc # "idle"
    /\ req.method = "GET"
    /\ req.url.path = <<"api", "heureka", "oauth", "callback">>

\* C25: GET /api/heureka/oauth/callback is served by the public handler with
\* no guard check, with or without an Authorization header and in preference
\* to the guarded heureka route; when the backend answers 3xx with a Location
\* header, the client receives a redirect with that status and that location.
C25_OAuthCallbackPublicRedirect ==
    IsOAuthCallbackGet =>
        /\ handler = "heurekaOAuthCallback"
        /\ guard = "none"
        /\ verified = 0
        /\ (/\ pc = "responded"
            /\ upstream.kind = "response"
            /\ isRedirectStatus(upstream.status)
            /\ upstream.location # "")
              => /\ response.kind = "redirect"
                 /\ response.status = upstream.status
                 /\ response.location = upstream.location

\* the callback, sent with a bearer token that does not verify, was answered
\* 307 by the backend and the client was redirected
C25_Witness ==
    /\ IsOAuthCallbackGet
    /\ req.authorization = BearerHeader
    /\ req.jwt.form = "badsig"
    /\ pc = "responded"
    /\ upstream.status = 307
    /\ response.kind = "redirect"

\* the request in progress has a path under /api/<backend>/ and was not
\* rejected by the guard, and its handler has run
ForwardedUnderBackend ==
    /\ pc \in {"awaiting", "returned", "responded"}
    /\ Len(req.url.path) >= 3
    /\ req.url.path[1] = "api"
    /\ req.url.path[2] \in ServiceNames
    /\ guard # "rejected"

\* C26: for every HTTP method and every path under /api/<backend>/ with
\* backend heureka, import, settings or auth, a request the guard did not
\* reject results in one call to that backend whose path is the inbound URL
\* with '/api' removed, query string preserved.
C26_EveryMethodAndPathForwarded ==
    ForwardedUnderBackend =>
        /\ call.issued
        /\ call.attempt = 1
        /\ call.serviceName = req.url.path[2]
        /\ call.method = req.method
        /\ call.path = [segs |-> Tail(req.url.path), query |-> req.url.query]

\* the status and code the six rules give for a failure of a call to a backend
RuleOutcome(serviceName, e) ==
    IF e.status = 401 /\ serviceName = "auth" THEN <<401, "UNAUTHORIZED">>
    ELSE IF e.name = "UnauthorizedException" THEN <<401, "UNAUTHORIZED">>
    ELSE IF e.code = "ECONNABORTED" \/ MessageIncludesTimeout(e.message)
    THEN <<503, "SERVICE_UNAVAILABLE">>
    ELSE IF e.code \in ConnectionFailureCodes THEN <<503, "SERVICE_UNAVAILABLE">>
    ELSE IF e.status = 409 THEN <<409, "CONFLICT">>
    ELSE <<IF e.status # 0 THEN e.status ELSE 500, "GATEWAY_ERROR">>

\* C27: when a forwarded call fails, the client outcome is decided by the
\* first matching rule: 401 on the auth backend, UnauthorizedException,
\* ECONNABORTED or a 'timeout' message, ECONNREFUSED/ENOTFOUND/ETIMEDOUT,
\* upstream 409, otherwise GATEWAY_ERROR with the upstream status or 500; one
\* response is sent.
C27_FirstMatchingErrorRule ==
    (pc = "responded" /\ fwd.kind = "throw") =>
        /\ response.kind = "envelope"
        /\ <<response.status, response.code>> = RuleOutcome(ServiceOf(handler), fwd.error)

\* C28: the guard has exactly two outcomes: it returns true after attaching
\* an identity whose id is a non-empty string, or it throws
\* UnauthorizedException (401); an error of any other type raised inside it
\* is turned into that 401, and a rejected request carries no identity.
C28_GuardAcceptsWithIdOrThrows401 ==
    GuardDone =>
        \/ /\ guard = "accepted"
           /\ pc = "handler"
           /\ user.id # ""
           /\ response = NoResponse
        \/ /\ guard = "rejected"
           /\ pc = "responded"
           /\ response.status = 401
           /\ response.kind = "exception"
           /\ response.code = "Unauthorized"
           /\ user = NoUser

\* a token that verifies and names a user id, whose issued-at makes the
\* guard raise a RangeError: the request is rejected with 401
C28_Witness ==
    /\ guard = "rejected"
    /\ WellSigned
    /\ CreatedAtThrows(req.jwt.payload)
    /\ ResolveUserId(req.jwt.payload) # ""
    /\ thrown = "Invalid time value"
    /\ response.status = 401

\* C29: every message delivered to the stock-events consumer is settled
\* exactly once: acked if and only if parsing and handleStockEvent completed
\* without throwing, otherwise nacked with requeue disabled; no message is
\* both acked and nacked, or left unsettled once its callback has finished.
C29_SettledExactlyOnce ==
    \A i \in 1..MaxMessages :
        deliveries[i].stage = "done" =>
            /\ deliveries[i].acks + deliveries[i].nacks = 1
            /\ deliveries[i].acks = 1 <=> ~deliveries[i].threw
            /\ ~deliveries[i].requeue

\* C30: after a 'stock.updated' or 'stock.out' message for a product known to
\* the feed store has been acked, the stored isIncluded flag of that product
\* equals (available > 0) for 'stock.updated' and false for 'stock.out'; a
\* 'stock.low' message, an unknown product or any other type changes no
\* stored product.
C30_AckedMeansFlagStored ==
    \A i \in 1..MaxMessages :
        LET d == deliveries[i]
            c == d.content
        IN  d.acks > 0 =>
              /\ (c.type = "stock.updated" /\ c.productId \in Products) =>
                    d.flag = IF GreaterThanZero(c.available) THEN "included" ELSE "excluded"
              /\ (c.type = "stock.out" /\ c.productId \in Products) => d.flag = "excluded"
              /\ (c.type \notin {"stock.updated", "stock.out"} \/ c.productId \notin Products) =>
                    ~d.wrote

=============================================================================
